---- MODULE Spec2Model ----
(***************************************************************************)
(* Timeline construction of silentcut (src/silentcut/processor.py), the    *)
(* remove command that drives it (src/silentcut/main.py) and the parser of *)
(* the detector's log (src/silentcut/detector.py).                         *)
(*                                                                         *)
(* Times are integers in hundredths of a second (0.01 s = 1), so that the  *)
(* thresholds of the code are whole numbers: 0.01 s = 1, 0.05 s = 5,       *)
(* 0.1 s = 10.  Speed factors are integers in hundredths (1.0 = 100).      *)
(* Arithmetic is exact; floating-point rounding is not modelled.           *)
(*                                                                         *)
(* The silent intervals and the total duration lie on a grid of GridStep   *)
(* hundredths while the padding takes every value of 0..MaxPadding, so     *)
(* that the lengths the code compares (silence - 2 * padding, trailing     *)
(* chunk, gaps) fall on both sides of each threshold.                      *)
(***************************************************************************)
EXTENDS Integers, Sequences, FiniteSets, TLC

VARIABLES
  silent_segments,   \* the silent intervals reported by the detector
  total_duration,    \* the probed duration of the media
  config,            \* the SilenceConfig: padding, accelerate, fluid
  chunks,            \* calculate_speech_segments: the chunks before consolidation
  speech_segments,   \* the result of calculate_speech_segments
  timeline,          \* the result of build_timeline
  pc,                \* "input", then "speech", then "done"; in the remove
                     \* command, the phase it is about to run
  threshold,         \* remove: the --threshold option
  dry_run,           \* remove: the --dry-run option
  exit_code,         \* remove: the exit code of the command, once it has ended
  failure,           \* remove: what handle_error was last called for
  executed,          \* remove: the phases run so far, in order
  encoder_runs,      \* remove: runs of the ffmpeg subprocess of cut_and_concat
  output_written,    \* remove: whether the output file exists
  stderr,            \* _parse_silence_stderr: the log lines scanned so far
  current_start,     \* _parse_silence_stderr: the pending silence_start
  segments           \* _parse_silence_stderr: the segments emitted so far

\* the state of the remove command beyond its inputs and its timeline
cliVars == <<threshold, dry_run, exit_code, failure, executed, encoder_runs,
             output_written>>

\* the state of _parse_silence_stderr
parserVars == <<stderr, current_start, segments>>

vars == <<silent_segments, total_duration, config, chunks, speech_segments,
          timeline, pc, cliVars, parserVars>>

-----------------------------------------------------------------------------
(* Bounds of the input space *)

\* silent-interval endpoints and the total duration are multiples of GridStep
GridStep == 3
\* the total duration is at most MaxSteps * GridStep
MaxSteps == 12
\* at most MaxSilences silent intervals
MaxSilences == 2
\* padding ranges over 0..MaxPadding
MaxPadding == 3

-----------------------------------------------------------------------------
(* Program constants *)

\* final chunk "practically empty" threshold, 0.05 s
FINAL_EPSILON == 5
\* dead-zone below which a gap is not filled, 0.01 s
DEAD_ZONE == 1
\* RAMP_DURATION = 0.1 s
RAMP_DURATION == 10
\* Segment.speed_factor default, 1.0
DEFAULT_SPEED_FACTOR == 100
\* accelerate = None (falsy)
NoAccelerate == 0
\* values of --accelerate: 2.0 and 3.0
Accelerations == {200, 300}

Max(a, b) == IF a >= b THEN a ELSE b
Min(a, b) == IF a <= b THEN a ELSE b

\* Segment(start=..., end=...) with the default speed factor
Segment(s, e) == [start |-> s, end |-> e, speed_factor |-> DEFAULT_SPEED_FACTOR]
\* Segment(start=..., end=..., speed_factor=...)
SpeedSegment(s, e, f) == [start |-> s, end |-> e, speed_factor |-> f]

\* Segment.duration
Duration(seg) == seg.end - seg.start

-----------------------------------------------------------------------------
(* calculate_speech_segments *)

\* a speech_start that adds the padding to the cursor
ChunkStart_PaddingAdded(current_time, padding) ==
  Max(0, current_time + padding)

\* speech_start of the chunk preceding a silence
ChunkStart(current_time, padding) == Max(0, current_time - padding)

\* a speech_end that forgets the padding
ChunkEnd_NoPadding(total, silence_start, padding) == Min(total, silence_start)

\* speech_end of the chunk preceding a silence
ChunkEnd(total, silence_start, padding) == Min(total, silence_start + padding)

\* the loop over the silent segments: the chunks emitted and the final cursor
RECURSIVE SpeechLoop(_, _, _, _, _)
SpeechLoop(silent, total, padding, current_time, acc) ==
  IF silent = <<>>
  THEN [speech_segments |-> acc, current_time |-> current_time]
  ELSE LET silence == Head(silent)
           speech_start == ChunkStart(current_time, padding)
           speech_end == ChunkEnd(total, silence.start, padding)
           acc2 == IF speech_start < speech_end
                   THEN Append(acc, Segment(speech_start, speech_end))
                   ELSE acc
       IN SpeechLoop(Tail(silent), total, padding, silence.end, acc2)

\* a threshold of 0.5 s instead of 0.05 s
FinalChunkLong_WrongUnit(final_start, final_end) ==
  final_end - final_start > 50

\* the final chunk is kept when it is not "practically empty"
FinalChunkLong(final_start, final_end) ==
  final_end - final_start > FINAL_EPSILON

FinalChunk(loop, total, padding) ==
  LET final_start == Max(0, loop.current_time - padding)
      final_end == total
  IN IF final_start < final_end /\ FinalChunkLong(final_start, final_end)
     THEN Append(loop.speech_segments, Segment(final_start, final_end))
     ELSE loop.speech_segments

\* speech_segments before consolidation
EmittedChunks(silent, total, padding) ==
  FinalChunk(SpeechLoop(silent, total, padding, 0, <<>>), total, padding)

\* a consolidation that never merges
Overlaps_Never(s, prev) == FALSE

\* a consolidation that merges overlapping chunks but not touching ones
Overlaps_Strict(s, prev) == s.start < prev.end

\* the merge test of the consolidation
Overlaps(s, prev) == s.start <= prev.end

RECURSIVE ConsolidateLoop(_, _)
ConsolidateLoop(emitted, consolidated) ==
  IF emitted = <<>> THEN consolidated
  ELSE LET s == Head(emitted) IN
       IF consolidated = <<>>
       THEN ConsolidateLoop(Tail(emitted), Append(consolidated, s))
       ELSE LET n == Len(consolidated)
                prev == consolidated[n]
            IN IF Overlaps(s, prev)
               THEN ConsolidateLoop(Tail(emitted),
                      [consolidated EXCEPT ![n] =
                         Segment(prev.start, Max(prev.end, s.end))])
               ELSE ConsolidateLoop(Tail(emitted), Append(consolidated, s))

Consolidate(emitted) == ConsolidateLoop(emitted, <<>>)

calculate_speech_segments(silent, total, padding) ==
  Consolidate(EmittedChunks(silent, total, padding))

-----------------------------------------------------------------------------
(* build_timeline *)

\* a mid speed that forgets to average with the normal speed
mid_speed_NoAverage(accelerate) == accelerate

mid_speed(accelerate) == (DEFAULT_SPEED_FACTOR + accelerate) \div 2

\* a gap test without the dead-zone
GapToFill_NoDeadZone(current_time, speech_start) == speech_start > current_time

\* a gap before a speech segment is filled when it exceeds the dead-zone
GapToFill(current_time, speech_start) == speech_start > current_time + DEAD_ZONE

\* a ramp whose constant part runs up to the speech, over the ease-out
GapSegments_OverlappingRamp(current_time, speech_start, accelerate, fluid) ==
  IF GapToFill(current_time, speech_start)
  THEN LET silence_duration == speech_start - current_time IN
       IF fluid /\ silence_duration > RAMP_DURATION * 2
       THEN << SpeedSegment(current_time, current_time + RAMP_DURATION,
                            mid_speed(accelerate)),
               SpeedSegment(current_time + RAMP_DURATION, speech_start, accelerate),
               SpeedSegment(speech_start - RAMP_DURATION, speech_start,
                            mid_speed(accelerate)) >>
       ELSE IF fluid
       THEN << SpeedSegment(current_time, speech_start, mid_speed(accelerate)) >>
       ELSE << SpeedSegment(current_time, speech_start, accelerate) >>
  ELSE <<>>

\* the segments that fill the gap [current_time, speech_start] before a speech
GapSegments(current_time, speech_start, accelerate, fluid) ==
  IF GapToFill(current_time, speech_start)
  THEN LET silence_duration == speech_start - current_time IN
       IF fluid /\ silence_duration > RAMP_DURATION * 2
       THEN << SpeedSegment(current_time, current_time + RAMP_DURATION,
                            mid_speed(accelerate)),
               SpeedSegment(current_time + RAMP_DURATION,
                            speech_start - RAMP_DURATION, accelerate),
               SpeedSegment(speech_start - RAMP_DURATION, speech_start,
                            mid_speed(accelerate)) >>
       ELSE IF fluid
       THEN << SpeedSegment(current_time, speech_start, mid_speed(accelerate)) >>
       ELSE << SpeedSegment(current_time, speech_start, accelerate) >>
  ELSE <<>>

\* the loop over the speech segments
RECURSIVE TimelineLoop(_, _, _, _, _)
TimelineLoop(speech, current_time, acc, accelerate, fluid) ==
  IF speech = <<>>
  THEN [timeline |-> acc, current_time |-> current_time]
  ELSE LET sp == Head(speech) IN
       TimelineLoop(Tail(speech), sp.end,
                    Append(acc \o GapSegments(current_time, sp.start,
                                              accelerate, fluid), sp),
                    accelerate, fluid)

\* a final gap that ramps from RAMP_DURATION on, not above it
FinalGap_RampAtEqual(current_time, total, accelerate, fluid) ==
  IF total > current_time + DEAD_ZONE
  THEN LET silence_duration == total - current_time IN
       IF fluid /\ silence_duration >= RAMP_DURATION
       THEN << SpeedSegment(current_time, current_time + RAMP_DURATION,
                            mid_speed(accelerate)),
               SpeedSegment(current_time + RAMP_DURATION, total, accelerate) >>
       ELSE << SpeedSegment(current_time, total, accelerate) >>
  ELSE <<>>

\* the final gap after the last speech segment
FinalGap(current_time, total, accelerate, fluid) ==
  IF total > current_time + DEAD_ZONE
  THEN LET silence_duration == total - current_time IN
       IF fluid /\ silence_duration > RAMP_DURATION
       THEN << SpeedSegment(current_time, current_time + RAMP_DURATION,
                            mid_speed(accelerate)),
               SpeedSegment(current_time + RAMP_DURATION, total, accelerate) >>
       ELSE << SpeedSegment(current_time, total, accelerate) >>
  ELSE <<>>

\* a build_timeline without the early return
NotAccelerate_Never(accelerate) == FALSE

\* "not config.accelerate"
NotAccelerate(accelerate) == accelerate = NoAccelerate

build_timeline(silent, total, cfg) ==
  LET speech == calculate_speech_segments(silent, total, cfg.padding) IN
  IF NotAccelerate(cfg.accelerate) THEN speech
  ELSE LET loop == TimelineLoop(speech, 0, <<>>, cfg.accelerate, cfg.fluid)
       IN loop.timeline \o FinalGap(loop.current_time, total,
                                    cfg.accelerate, cfg.fluid)

-----------------------------------------------------------------------------
(* Valid inputs *)

GridTimes(lo, hi) == { t \in lo..hi : t % GridStep = 0 }

\* sorted, non-overlapping silent intervals inside [lo, hi], at most n of them
RECURSIVE SilentLists(_, _, _)
SilentLists(lo, hi, n) ==
  {<<>>} \cup
  (IF n = 0 THEN {}
   ELSE UNION { { <<Segment(a, b)>> \o rest : rest \in SilentLists(b, hi, n - 1) } :
                <<a, b>> \in { p \in GridTimes(lo, hi) \X GridTimes(lo, hi) :
                               p[1] < p[2] } })

Durations == GridTimes(1, MaxSteps * GridStep)

\* the SilenceConfig of a call: padding, accelerate (None by default) and fluid
\* (False by default)
SilenceConfig(padding, accelerate, fluid) ==
  [padding |-> padding, accelerate |-> accelerate, fluid |-> fluid]

Paddings == 0..MaxPadding

-----------------------------------------------------------------------------
(* The state machine: the inputs, then the two entry points applied to     *)
(* them.  calculate_speech_segments reads only the padding of its config;  *)
(* build_timeline is then called on the same intervals, duration and       *)
(* padding, with accelerate and fluid as its caller chooses them.          *)

\* the process has not ended
NoExit == -1

\* the default --threshold, in dB
DefaultThreshold == -40

\* the remove command is not running
CliIdle ==
  /\ threshold = DefaultThreshold
  /\ dry_run = FALSE
  /\ exit_code = NoExit
  /\ failure = "none"
  /\ executed = <<>>
  /\ encoder_runs = 0
  /\ output_written = FALSE

\* _parse_silence_stderr before its first line: nothing pending, nothing emitted
ParserStart ==
  /\ stderr = <<>>
  /\ current_start = <<>>
  /\ segments = <<>>

Init ==
  /\ total_duration \in Durations
  /\ silent_segments \in SilentLists(0, total_duration, MaxSilences)
  /\ \E padding \in Paddings : config = SilenceConfig(padding, NoAccelerate, FALSE)
  /\ chunks = <<>>
  /\ speech_segments = <<>>
  /\ timeline = <<>>
  /\ pc = "input"
  /\ CliIdle
  /\ ParserStart

CalculateSpeechSegments ==
  /\ pc = "input"
  /\ chunks' = EmittedChunks(silent_segments, total_duration, config.padding)
  /\ speech_segments' =
       calculate_speech_segments(silent_segments, total_duration, config.padding)
  /\ pc' = "speech"
  /\ UNCHANGED <<silent_segments, total_duration, config, timeline>>
  /\ UNCHANGED <<cliVars, parserVars>>

BuildTimeline ==
  /\ pc = "speech"
  /\ \E accelerate \in {NoAccelerate} \cup Accelerations, fluid \in BOOLEAN :
       /\ config' = SilenceConfig(config.padding, accelerate, fluid)
       /\ timeline' = build_timeline(silent_segments, total_duration, config')
  /\ pc' = "done"
  /\ UNCHANGED <<silent_segments, total_duration, chunks, speech_segments>>
  /\ UNCHANGED <<cliVars, parserVars>>

Next == CalculateSpeechSegments \/ BuildTimeline

Spec == Init /\ [][Next]_vars

-----------------------------------------------------------------------------
(* The remove command (main.py), phase by phase: ensure_ffmpeg, the        *)
(* configuration, the detection, the duration probe, build_timeline,       *)
(* cut_and_concat, the summary.  The options are fixed when the command    *)
(* starts; what the collaborators answer (ffmpeg found or not, the silent  *)
(* intervals, the probed duration, the encoder's success) is drawn when    *)
(* the phase runs.  The --auto option is left at its default (off).        *)

\* the detector reports at most CliMaxSilences silent intervals
CliMaxSilences == 1

\* --threshold: the default, and two values the validation rejects
Thresholds == {DefaultThreshold, 0, 5}

\* --padding: the valid ones, and one the validation rejects
CliPaddings == {-1} \cup Paddings

\* SilenceConfig(...) raises no ValidationError: threshold le=0 and not >= 0,
\* padding ge=0
ValidConfig(t, padding) == t <= 0 /\ ~(t >= 0) /\ padding >= 0

\* where the command goes on after a step: the next phase, or its end
Continue(phase) == [pc |-> phase, exit_code |-> NoExit]
Return(code) == [pc |-> "exited", exit_code |-> code]

\* a handle_error that prints the panel and returns to its caller
handle_error_Returns(fallthrough) == fallthrough

\* handle_error: prints the panel, then sys.exit(1); the code after the call
\* (fallthrough) is not reached
handle_error(fallthrough) == Return(1)

\* a call of handle_error for the given failure
Fail(what, fallthrough) ==
  /\ failure' = what
  /\ pc' = handle_error(fallthrough).pc
  /\ exit_code' = handle_error(fallthrough).exit_code

\* the phase goes on to the next one
Proceed(phase) ==
  /\ pc' = phase
  /\ UNCHANGED <<exit_code, failure>>

InitCli ==
  /\ pc = "ensure_ffmpeg"
  /\ threshold \in Thresholds
  /\ dry_run \in BOOLEAN
  /\ \E padding \in CliPaddings, accelerate \in {NoAccelerate} \cup Accelerations,
        fluid \in BOOLEAN : config = SilenceConfig(padding, accelerate, fluid)
  /\ silent_segments = <<>>
  /\ total_duration = 0
  /\ chunks = <<>>
  /\ speech_segments = <<>>
  /\ timeline = <<>>
  /\ exit_code = NoExit
  /\ failure = "none"
  /\ executed = <<>>
  /\ encoder_runs = 0
  /\ output_written = FALSE
  /\ ParserStart

\* ensure_ffmpeg(): "ffmpeg -version" runs, or handle_error
CliEnsureFfmpeg ==
  /\ pc = "ensure_ffmpeg"
  /\ executed' = Append(executed, "ensure_ffmpeg")
  /\ \E found \in BOOLEAN :
       IF found THEN Proceed("config")
       ELSE Fail("ffmpeg_missing", Continue("config"))
  /\ UNCHANGED <<silent_segments, total_duration, config, chunks,
                 speech_segments, timeline, threshold, dry_run, encoder_runs,
                 output_written, parserVars>>

\* config = SilenceConfig(...), or handle_error and return
CliConfig ==
  /\ pc = "config"
  /\ executed' = Append(executed, "config")
  /\ IF ValidConfig(threshold, config.padding) THEN Proceed("detect")
     ELSE Fail("invalid_config", Return(0))
  /\ UNCHANGED <<silent_segments, total_duration, config, chunks,
                 speech_segments, timeline, threshold, dry_run, encoder_runs,
                 output_written, parserVars>>

\* silent_segments = detector.detect(...): the parsed intervals, or
\* handle_error and []
CliDetect ==
  /\ pc = "detect"
  /\ executed' = Append(executed, "detect")
  /\ \/ /\ silent_segments' \in
             SilentLists(0, MaxSteps * GridStep, CliMaxSilences)
        /\ Proceed("probe")
     \/ /\ silent_segments' = <<>>
        /\ Fail("detection", Continue("probe"))
  /\ UNCHANGED <<total_duration, config, chunks, speech_segments, timeline,
                 threshold, dry_run, encoder_runs, output_written, parserVars>>

\* the end of the last detected silent interval
LastSilenceEnd(silent) ==
  IF silent = <<>> THEN 0 ELSE silent[Len(silent)].end

\* total_duration = get_video_duration(...): the probe raises (handle_error,
\* 0.0), or gives a duration, and handle_error when that is <= 0
CliProbe ==
  /\ pc = "probe"
  /\ executed' = Append(executed, "probe")
  /\ \/ /\ total_duration' = 0
        /\ Fail("probe", Continue("build_timeline"))
     \/ /\ total_duration' \in
             {0} \cup { d \in Durations : d >= LastSilenceEnd(silent_segments) }
        /\ IF total_duration' <= 0
           THEN Fail("duration", Continue("build_timeline"))
           ELSE Proceed("build_timeline")
  /\ UNCHANGED <<silent_segments, config, chunks, speech_segments, timeline,
                 threshold, dry_run, encoder_runs, output_written, parserVars>>

\* segments_to_process = build_timeline(...); nothing to process: return
CliBuildTimeline ==
  /\ pc = "build_timeline"
  /\ executed' = Append(executed, "build_timeline")
  /\ timeline' = build_timeline(silent_segments, total_duration, config)
  /\ IF timeline' = <<>>
     THEN pc' = Return(0).pc /\ exit_code' = Return(0).exit_code
     ELSE pc' = "cut_and_concat" /\ UNCHANGED exit_code
  /\ UNCHANGED <<silent_segments, total_duration, config, chunks,
                 speech_segments, threshold, dry_run, failure, encoder_runs,
                 output_written, parserVars>>

\* a cut_and_concat that encodes in a dry run too
RunsEncoder_IgnoresDryRun(segs, dry) == segs # <<>>

\* cut_and_concat gets past its two early returns
RunsEncoder(segs, dry) == segs # <<>> /\ ~dry

\* cut_and_concat(...): the ffmpeg subprocess, which writes the output file,
\* or fails (handle_error) leaving it written or not
CliCutAndConcat ==
  /\ pc = "cut_and_concat"
  /\ executed' = Append(executed, "cut_and_concat")
  /\ IF RunsEncoder(timeline, dry_run)
     THEN /\ encoder_runs' = encoder_runs + 1
          /\ \/ output_written' = TRUE /\ Proceed("summary")
             \/ /\ output_written' \in BOOLEAN
                /\ Fail("cutting", Continue("summary"))
     ELSE /\ Proceed("summary")
          /\ UNCHANGED <<encoder_runs, output_written>>
  /\ UNCHANGED <<silent_segments, total_duration, config, chunks,
                 speech_segments, timeline, threshold, dry_run, parserVars>>

\* the summary is printed and the command returns
CliSummary ==
  /\ pc = "summary"
  /\ executed' = Append(executed, "summary")
  /\ pc' = Return(0).pc
  /\ exit_code' = Return(0).exit_code
  /\ UNCHANGED <<silent_segments, total_duration, config, chunks,
                 speech_segments, timeline, threshold, dry_run, failure,
                 encoder_runs, output_written, parserVars>>

NextCli ==
  \/ CliEnsureFfmpeg
  \/ CliConfig
  \/ CliDetect
  \/ CliProbe
  \/ CliBuildTimeline
  \/ CliCutAndConcat
  \/ CliSummary

SpecCli == InitCli /\ [][NextCli]_vars

-----------------------------------------------------------------------------
(* _parse_silence_stderr (detector.py): one scan of the log, line by line. *)
(* A line is what the scan reads of it: whether it contains the word       *)
(* silencedetect, and the number texts that follow "silence_start: " and   *)
(* "silence_end: " on it (<<>> when the word is absent).  A number text is *)
(* its sign and its magnitude in hundredths: "-0.01" is NumberText(TRUE,   *)
(* 1).  The magnitudes after silence_end are positive, as Segment          *)
(* requires of an end.                                                     *)

\* a log has at most MaxLines lines
MaxLines == 3
\* the times of a log are at most MaxLogTime
MaxLogTime == 2

NumberText(minus, magnitude) == [minus |-> minus, magnitude |-> magnitude]

NoField == <<>>

LogLine(tagged, start, end) ==
  [silencedetect |-> tagged, silence_start |-> start, silence_end |-> end]

\* the number texts after silence_start: a small negative one, as ffmpeg
\* prints for a silence that begins with the media, and the non-negative ones
StartTexts ==
  {NumberText(TRUE, 1)} \cup
  { NumberText(FALSE, t) : t \in 0..(MaxLogTime - 1) }

EndTexts == { NumberText(FALSE, t) : t \in 1..MaxLogTime }

\* the silencedetect lines, and three lines of other filters
LogLines ==
  { LogLine(TRUE, st, en) :
      st \in {NoField} \cup { <<x>> : x \in StartTexts },
      en \in {NoField} \cup { <<x>> : x \in EndTexts } }
  \cup { LogLine(FALSE, NoField, NoField),
         LogLine(FALSE, <<NumberText(FALSE, 0)>>, NoField),
         LogLine(FALSE, NoField, <<NumberText(FALSE, 1)>>) }

\* pattern.search(line) for r'word:\s+([\d\.]+)': the group is digits and
\* dots, so a text that begins with "-" is no match
Search(field) ==
  IF field # NoField /\ ~field[1].minus THEN field ELSE NoField

\* float(match.group(1)), in hundredths
Float(match) == match[1].magnitude

\* the body of the for loop on one line
ScanLine(line, pending, emitted) ==
  IF line.silencedetect
  THEN LET start_match == Search(line.silence_start)
           end_match == Search(line.silence_end)
       IN IF start_match # NoField
          THEN [current_start |-> <<Float(start_match)>>, segments |-> emitted]
          ELSE IF end_match # NoField /\ pending # <<>>
          THEN [current_start |-> <<>>,
                segments |-> Append(emitted,
                                    Segment(pending[1], Float(end_match)))]
          ELSE [current_start |-> pending, segments |-> emitted]
  ELSE [current_start |-> pending, segments |-> emitted]

InitParse ==
  /\ pc = "parse"
  /\ ParserStart
  /\ CliIdle
  /\ config = SilenceConfig(0, NoAccelerate, FALSE)
  /\ silent_segments = <<>>
  /\ total_duration = 0
  /\ chunks = <<>>
  /\ speech_segments = <<>>
  /\ timeline = <<>>

\* the loop takes the next line of the log
ParseLine ==
  /\ pc = "parse"
  /\ Len(stderr) < MaxLines
  /\ \E line \in LogLines :
       LET scanned == ScanLine(line, current_start, segments) IN
       /\ stderr' = Append(stderr, line)
       /\ current_start' = scanned.current_start
       /\ segments' = scanned.segments
  /\ UNCHANGED <<silent_segments, total_duration, config, chunks,
                 speech_segments, timeline, pc, cliVars>>

NextParse == ParseLine

SpecParse == InitParse /\ [][NextParse]_vars

-----------------------------------------------------------------------------
(* The caller's playable duration (main.py): sum of duration / speed_factor, *)
(* as an exact fraction <<numerator, denominator>> in lowest terms           *)

RECURSIVE GCD(_, _)
GCD(a, b) == IF b = 0 THEN a ELSE GCD(b, a % b)

Rat(n, d) == LET g == GCD(n, d) IN <<n \div g, d \div g>>

RatAdd(x, y) == Rat(x[1] * y[2] + y[1] * x[2], x[2] * y[2])

\* seg.duration / seg.speed_factor (speed factors are in hundredths)
PlayTime(seg) == Rat(Duration(seg) * 100, seg.speed_factor)

RECURSIVE final_duration(_)
final_duration(segs) ==
  IF segs = <<>> THEN Rat(0, 1)
  ELSE RatAdd(PlayTime(Head(segs)), final_duration(Tail(segs)))

-----------------------------------------------------------------------------
(* Vocabulary of the properties *)

RECURSIVE SumDurations(_)
SumDurations(segs) ==
  IF segs = <<>> THEN 0 ELSE Duration(Head(segs)) + SumDurations(Tail(segs))

Range(seq) == { seq[i] : i \in 1..Len(seq) }

\* the segments, in order, tile [0, total]: no gap, no overlap
Tiles(segs, total) ==
  /\ Len(segs) >= 1
  /\ segs[1].start = 0
  /\ \A i \in 1..(Len(segs) - 1) : segs[i + 1].start = segs[i].end
  /\ segs[Len(segs)].end = total

\* every segment lies inside [0, total]
Within(segs, total) ==
  \A i \in 1..Len(segs) : 0 <= segs[i].start /\ segs[i].end <= total

\* no segment starts before the previous one ends
NoOverlap(segs) ==
  \A i \in 2..Len(segs) : segs[i].start >= segs[i - 1].end

\* starts strictly increase
IncreasingStarts(segs) ==
  \A i \in 2..Len(segs) : segs[i].start > segs[i - 1].start

\* every start is strictly after the previous end
Separated(segs) ==
  \A i \in 2..Len(segs) : segs[i].start > segs[i - 1].end

\* the hundredths [t, t+1) of [0, total] covered by some segment
Cover(segs, total) ==
  { t \in 0..(total - 1) : \E i \in 1..Len(segs) :
                              segs[i].start <= t /\ t < segs[i].end }

SpeechDone == pc = "speech"
TimelineDone == pc = "done"
Accelerated == config.accelerate # NoAccelerate

\* the cursor before the i-th speech segment of the walk of build_timeline
Cursor(speech, i) == IF i = 1 THEN 0 ELSE speech[i - 1].end
\* the gap before the i-th speech segment
Gap(speech, i) == speech[i].start - Cursor(speech, i)

-----------------------------------------------------------------------------
(* C1: with accelerate set, the segments of build_timeline tile            *)
(* [0, total_duration] exactly: first start 0, each start equal to the     *)
(* previous end, last end total_duration.  (Violated: a gap of at most     *)
(* 0.01 s is left unfilled.)                                               *)
C1_TimelineTiles ==
  (TimelineDone /\ Accelerated) => Tiles(timeline, total_duration)

(* C2: the segments of calculate_speech_segments tile [0, total_duration]. *)
(* (Violated: the silence is cut out.)                                     *)
C2_SpeechTiles ==
  SpeechDone => Tiles(speech_segments, total_duration)

(* C2 amended: the segments of calculate_speech_segments lie inside        *)
(* [0, total_duration] and do not overlap; they tile [0, total_duration]   *)
(* only when the result is the single segment (0, total_duration).         *)
C2_SpeechWithinNoOverlap ==
  SpeechDone =>
    /\ Within(speech_segments, total_duration)
    /\ NoOverlap(speech_segments)
    /\ (Tiles(speech_segments, total_duration)
          <=> speech_segments = <<Segment(0, total_duration)>>)

C2_Witness ==
  /\ SpeechDone
  /\ Len(silent_segments) = 2
  /\ Len(speech_segments) = 3
  /\ config.padding > 0
  /\ ~Tiles(speech_segments, total_duration)

C4_PassThrough ==
  (TimelineDone /\ ~Accelerated) =>
    /\ timeline = speech_segments
    /\ \A i \in 1..Len(timeline) : timeline[i].speed_factor = 100

C4_Witness ==
  /\ TimelineDone
  /\ ~Accelerated
  /\ Len(silent_segments) >= 1
  /\ Len(timeline) >= 2

(* C5: with accelerate = A and fluid = False, the playable duration of the *)
(* timeline (sum of duration / speed_factor) equals the sum of the speech  *)
(* durations plus the silence (the part of [0, total_duration] outside the *)
(* speech intervals) divided by A.  (Violated: see C1.)                    *)
C5_DurationLaw ==
  (TimelineDone /\ Accelerated /\ ~config.fluid) =>
    final_duration(timeline) =
      RatAdd(Rat(SumDurations(speech_segments), 1),
             Rat((total_duration - SumDurations(speech_segments)) * 100,
                 config.accelerate))

-----------------------------------------------------------------------------
(* Vocabulary of C6 and C7, over the chunks emitted before consolidation *)

\* the cursor before the i-th silent interval
SilenceCursor(i) == IF i = 1 THEN 0 ELSE silent_segments[i - 1].end

\* the chunk the claim describes before the i-th silent interval
ClaimedChunk(i) ==
  Segment(Max(0, SilenceCursor(i) - config.padding),
          Min(total_duration, silent_segments[i].start + config.padding))

\* the chunks of C6, in order: one before each silent interval, when not empty
ClaimedLoopChunks ==
  LET NonEmpty(c) == c.start < c.end
  IN SelectSeq([i \in 1..Len(silent_segments) |-> ClaimedChunk(i)], NonEmpty)

\* the loop chunks are the first chunks emitted; at most the final chunk follows
LoopChunksAsClaimed ==
  /\ Len(chunks) \in {Len(ClaimedLoopChunks), Len(ClaimedLoopChunks) + 1}
  /\ SubSeq(chunks, 1, Len(ClaimedLoopChunks)) = ClaimedLoopChunks

\* silent interval i is strictly inside the media and longer than 2 * padding
InsideAndLong(i) ==
  /\ 0 < silent_segments[i].start
  /\ silent_segments[i].end < total_duration
  /\ Duration(silent_segments[i]) > 2 * config.padding

\* exactly [s.start + padding, s.end - padding] lies between two consecutive
\* output segments
RemovedExactly(i) ==
  \E j \in 1..(Len(speech_segments) - 1) :
    /\ speech_segments[j].end = silent_segments[i].start + config.padding
    /\ speech_segments[j + 1].start = silent_segments[i].end - config.padding

\* the chunks on both sides of silent interval i are emitted
BothSidesEmitted(i) ==
  LET n == Len(silent_segments)
      s == silent_segments[i]
  IN /\ ~(config.padding = 0 /\ i > 1 /\ silent_segments[i - 1].end = s.start)
     /\ i < n => ~(config.padding = 0 /\ silent_segments[i + 1].start = s.end)
     /\ i = n => total_duration - (s.end - config.padding) > 5

\* consecutive chunks that do not touch stay two consecutive output segments
UntouchingNotMerged ==
  \A k \in 1..(Len(chunks) - 1) :
    chunks[k + 1].start > chunks[k].end =>
      \E j \in 1..(Len(speech_segments) - 1) :
        /\ speech_segments[j].end = chunks[k].end
        /\ speech_segments[j + 1].start = chunks[k + 1].start

(* C6: the chunk before each silent interval s spans                        *)
(* [max(0, cursor - padding), min(total_duration, s.start + padding)];     *)
(* for every s strictly inside the media and longer than 2 * padding the   *)
(* part removed between two consecutive output segments is exactly         *)
(* [s.start + padding, s.end - padding]; chunks that do not touch are not  *)
(* merged.  (Violated: the chunk after s may not be emitted.)              *)
C6_InvertWithPadding ==
  SpeechDone =>
    /\ LoopChunksAsClaimed
    /\ \A i \in 1..Len(silent_segments) : InsideAndLong(i) => RemovedExactly(i)
    /\ UntouchingNotMerged

(* C6 amended: as C6, the removed part being exactly                       *)
(* [s.start + padding, s.end - padding] provided the chunks on both sides  *)
(* of s are emitted: s does not touch a neighbouring silent interval when  *)
(* padding is 0, and when s is the last silent interval the trailing chunk *)
(* [s.end - padding, total_duration] is longer than 0.05 s.                *)
C6_InvertWithPaddingEmitted ==
  SpeechDone =>
    /\ LoopChunksAsClaimed
    /\ \A i \in 1..Len(silent_segments) :
         (InsideAndLong(i) /\ BothSidesEmitted(i)) => RemovedExactly(i)
    /\ UntouchingNotMerged

C6_Witness ==
  /\ SpeechDone
  /\ config.padding > 0
  /\ Len(silent_segments) = 2
  /\ \A i \in 1..2 : InsideAndLong(i) /\ BothSidesEmitted(i)
  /\ Len(chunks) = 3
  /\ Len(speech_segments) = 3

\* the end of the running chunk when chunk k + 1 is scanned
RECURSIVE RunningEnd(_)
RunningEnd(k) == IF k = 1 THEN chunks[1].end
                 ELSE Max(RunningEnd(k - 1), chunks[k].end)

\* chunk k + 1 overlaps or touches the running chunk
Collapses(k) == chunks[k + 1].start <= RunningEnd(k)

\* the chunks merged into output segment j
MergedInto(j) ==
  { k \in 1..Len(chunks) : /\ speech_segments[j].start <= chunks[k].start
                           /\ chunks[k].end <= speech_segments[j].end }

(* C7: successive chunks that overlap or touch (next.start <= running.end) *)
(* are merged into one segment bounded by the start of the first and the   *)
(* max of the ends; in the output every start is strictly greater than the *)
(* previous end, and the union of the output is the union of the chunks.   *)
C7_PaddingCollapse ==
  SpeechDone =>
    /\ \A k \in 1..(Len(chunks) - 1) :
         Collapses(k) => \E j \in 1..Len(speech_segments) : {k, k + 1} \subseteq MergedInto(j)
    /\ \A j \in 1..Len(speech_segments) :
         /\ \E k \in MergedInto(j) : speech_segments[j].start = chunks[k].start
         /\ \E k \in MergedInto(j) : speech_segments[j].end = chunks[k].end
    /\ Separated(speech_segments)
    /\ Cover(speech_segments, total_duration) = Cover(chunks, total_duration)

C7_Witness ==
  /\ SpeechDone
  /\ Len(chunks) = 3
  /\ chunks[2].start = chunks[1].end
  /\ chunks[3].start > chunks[2].end
  /\ Len(speech_segments) = 2

(* C8: with no silent interval and any total_duration > 0,                 *)
(* calculate_speech_segments returns exactly (0, total_duration).          *)
(* (Violated: a total_duration of at most 0.05 s gives the empty list.)    *)
C8_EmptySilence ==
  (SpeechDone /\ silent_segments = <<>>) =>
    speech_segments = <<Segment(0, total_duration)>>

(* C8 amended: with no silent interval, calculate_speech_segments returns  *)
(* exactly (0, total_duration) when total_duration > 0.05 s, and the empty *)
(* list when total_duration <= 0.05 s.                                     *)
C8_EmptySilenceLong ==
  (SpeechDone /\ silent_segments = <<>>) =>
    speech_segments = IF total_duration > 5
                      THEN <<Segment(0, total_duration)>>
                      ELSE <<>>

C8_Witness ==
  /\ SpeechDone
  /\ silent_segments = <<>>
  /\ total_duration > 5
  /\ config.padding > 0
  /\ Len(speech_segments) = 1

-----------------------------------------------------------------------------
(* Vocabulary of C9 and C10: the gaps of the walk over the speech intervals *)

IsNormalSpeed(seg) == seg.speed_factor = 100

\* one segment over each gap longer than 0.01 s before a speech interval
GapFillers(speed) ==
  { SpeedSegment(Cursor(speech_segments, i), speech_segments[i].start, speed) :
      i \in { k \in 1..Len(speech_segments) : Gap(speech_segments, k) > 1 } }

LastCursor == IF speech_segments = <<>> THEN 0
              ELSE speech_segments[Len(speech_segments)].end

\* one segment over the trailing gap, when longer than 0.01 s
TrailingFiller(speed) ==
  IF total_duration - LastCursor > 1
  THEN { SpeedSegment(LastCursor, total_duration, speed) }
  ELSE {}

\* the timeline holds exactly the segments of the set, once each, in time order
ConsistsOf(segs) ==
  /\ Range(timeline) = segs
  /\ Len(timeline) = Cardinality(segs)
  /\ IncreasingStarts(timeline)

NonFluidDone == TimelineDone /\ Accelerated /\ ~config.fluid
FluidDone == TimelineDone /\ Accelerated /\ config.fluid

(* C9: with accelerate = A and fluid = False the timeline consists of the  *)
(* speech intervals, unmodified, in order, at speed_factor 1.0, and of one *)
(* segment at speed_factor A over each gap longer than 0.01 s before a     *)
(* speech interval; no other segment appears.  (Violated: the segment over *)
(* the trailing gap.)                                                      *)
C9_NonFluidInterleave ==
  NonFluidDone =>
    /\ SelectSeq(timeline, IsNormalSpeed) = speech_segments
    /\ ConsistsOf(Range(speech_segments) \cup GapFillers(config.accelerate))

(* C9 amended: as C9, and the only other segment is the one at             *)
(* speed_factor A over the trailing gap [cursor, total_duration], present  *)
(* when that gap is longer than 0.01 s.                                    *)
C9_NonFluidInterleaveTrailing ==
  NonFluidDone =>
    /\ SelectSeq(timeline, IsNormalSpeed) = speech_segments
    /\ ConsistsOf(Range(speech_segments) \cup GapFillers(config.accelerate)
                    \cup TrailingFiller(config.accelerate))

C9_Witness ==
  /\ NonFluidDone
  /\ Len(speech_segments) >= 2
  /\ GapFillers(config.accelerate) # {}
  /\ TrailingFiller(config.accelerate) # {}

\* the segments of the timeline inside the gap before the i-th speech interval
InGap(i) ==
  LET Inside(seg) == /\ seg.start >= Cursor(speech_segments, i)
                     /\ seg.end <= speech_segments[i].start
  IN SelectSeq(timeline, Inside)

(* C10: with accelerate = A and fluid = True, every gap longer than 0.01 s *)
(* before a speech interval is filled, when longer than 0.2 s, by exactly  *)
(* [cursor, cursor+0.1] at mid_speed, [cursor+0.1, speech.start-0.1] at A, *)
(* [speech.start-0.1, speech.start] at mid_speed, and otherwise by exactly *)
(* one segment over the gap at mid_speed = (1 + A) / 2.                    *)
C10_FluidGaps ==
  FluidDone =>
    \A i \in 1..Len(speech_segments) :
      Gap(speech_segments, i) > 1 =>
        LET c == Cursor(speech_segments, i)
            e == speech_segments[i].start
            A == config.accelerate
            mid == (100 + A) \div 2
        IN InGap(i) = IF e - c > 20
                      THEN << SpeedSegment(c, c + 10, mid),
                              SpeedSegment(c + 10, e - 10, A),
                              SpeedSegment(e - 10, e, mid) >>
                      ELSE << SpeedSegment(c, e, mid) >>

C10_Witness ==
  /\ FluidDone
  /\ \E i \in 1..Len(speech_segments) : Gap(speech_segments, i) > 20
  /\ \E i \in 1..Len(speech_segments) : Gap(speech_segments, i) \in 2..20

-----------------------------------------------------------------------------
(* The trailing gap: what follows the last speech interval *)

TrailingGap == total_duration - LastCursor

\* the segments of the timeline inside the trailing gap
InTrailingGap ==
  LET Inside(seg) == seg.start >= LastCursor
  IN SelectSeq(timeline, Inside)

(* C11: a trailing gap longer than 0.01 s is filled like the inner gaps:   *)
(* non-fluid, by one segment at speed_factor A; fluid and longer than      *)
(* RAMP_DURATION, by [cursor, cursor+0.1] at mid_speed then                *)
(* [cursor+0.1, total_duration] at A; fluid and shorter, by one segment    *)
(* over the whole gap at mid_speed = (1 + A) / 2.  (Violated: the short    *)
(* fluid trailing gap comes out at A.)                                     *)
C11_TrailingGap ==
  (TimelineDone /\ Accelerated /\ TrailingGap > 1) =>
    LET c == LastCursor
        A == config.accelerate
        mid == (100 + A) \div 2
    IN InTrailingGap =
         IF ~config.fluid THEN << SpeedSegment(c, total_duration, A) >>
         ELSE IF TrailingGap > 10
              THEN << SpeedSegment(c, c + 10, mid),
                      SpeedSegment(c + 10, total_duration, A) >>
              ELSE << SpeedSegment(c, total_duration, mid) >>

\* the two clauses of C11 the code does satisfy
TrailingGapNonFluidOrLong ==
  (TimelineDone /\ Accelerated /\ TrailingGap > 1
     /\ (config.fluid => TrailingGap > 10)) =>
    LET c == LastCursor
        A == config.accelerate
        mid == (100 + A) \div 2
    IN InTrailingGap =
         IF ~config.fluid THEN << SpeedSegment(c, total_duration, A) >>
         ELSE << SpeedSegment(c, c + 10, mid),
                 SpeedSegment(c + 10, total_duration, A) >>

-----------------------------------------------------------------------------
\* a well-formed segment of a media of the given total duration
WellFormed(seg, total) ==
  0 <= seg.start /\ seg.start < seg.end /\ seg.end <= total

-----------------------------------------------------------------------------
(* The remove command *)

Exited == pc = "exited"
Ran(phase) == phase \in Range(executed)

(* C13: the encoder runs, and an output file is written, only when dry_run *)
(* is false and the segment list is not empty; a run that reports no       *)
(* failure and is a dry run, or computes an empty timeline, ends with exit *)
(* code 0 without any encoder run and without an output file.              *)
C13_EncoderOnlyWhenNeeded ==
  /\ (encoder_runs > 0 \/ output_written) => (~dry_run /\ timeline # <<>>)
  /\ (Exited /\ failure = "none" /\ (dry_run \/ timeline = <<>>)) =>
       (exit_code = 0 /\ encoder_runs = 0 /\ ~output_written)

\* a dry run that went through cut_and_concat with segments to process
C13_Witness ==
  /\ Exited
  /\ dry_run
  /\ timeline # <<>>
  /\ Ran("cut_and_concat")
  /\ exit_code = 0

\* the other case of C13: the whole file is silent, padding 0, cut mode
EmptyTimelineRun ==
  /\ Exited
  /\ ~dry_run
  /\ Ran("build_timeline")
  /\ timeline = <<>>
  /\ silent_segments = <<Segment(0, total_duration)>>
  /\ exit_code = 0

\* the phase in which each failure is reported
FailingPhase(what) ==
  CASE what = "ffmpeg_missing" -> "ensure_ffmpeg"
    [] what = "invalid_config" -> "config"
    [] what = "detection" -> "detect"
    [] what = "probe" -> "probe"
    [] what = "duration" -> "probe"
    [] what = "cutting" -> "cut_and_concat"

(* C14: once handle_error has reported a failure the command has ended     *)
(* with exit code 1 and the failing phase is the last one that ran; when   *)
(* ffmpeg is missing, the configuration is invalid, the detection or the   *)
(* duration probe fails or the probed duration is <= 0, build_timeline and *)
(* the encoder have not run.                                               *)
C14_FailureStops ==
  failure # "none" =>
    /\ Exited
    /\ exit_code = 1
    /\ executed[Len(executed)] = FailingPhase(failure)
    /\ failure # "cutting" =>
         /\ ~Ran("build_timeline")
         /\ ~Ran("cut_and_concat")
         /\ timeline = <<>>
         /\ encoder_runs = 0
         /\ ~output_written

\* the probe answered a duration of 0 after a successful detection
C14_Witness ==
  /\ failure = "duration"
  /\ Exited
  /\ silent_segments # <<>>
  /\ total_duration = 0

-----------------------------------------------------------------------------
(* The scan of the detector's log *)

\* the line the scan has just taken
LastLine == stderr'[Len(stderr')]

HasStart(line) == line.silencedetect /\ line.silence_start # NoField
HasEnd(line) == line.silencedetect /\ line.silence_end # NoField

\* the number a text denotes, in hundredths
Value(field) ==
  IF field[1].minus THEN 0 - field[1].magnitude ELSE field[1].magnitude

\* the end lines among the lines scanned so far
EndLines == { i \in 1..Len(stderr) : HasEnd(stderr[i]) }

(* C15: each silencedetect line with silence_start sets the pending start  *)
(* to its number; each silencedetect line with silence_end (and no         *)
(* silence_start) emits the segment (pending start, end) and clears the    *)
(* pending start, or changes nothing when no start is pending; any other   *)
(* line changes nothing.  (Violated: a silence_start with a negative       *)
(* number is not taken.)                                                   *)
C15_ScanRules ==
  [][ (stderr' # stderr) =>
        /\ HasStart(LastLine) =>
             /\ current_start' = <<Value(LastLine.silence_start)>>
             /\ (~HasEnd(LastLine) => segments' = segments)
        /\ (HasEnd(LastLine) /\ ~HasStart(LastLine)) =>
             IF current_start # <<>>
             THEN /\ segments' =
                       Append(segments,
                              Segment(current_start[1],
                                      Value(LastLine.silence_end)))
                  /\ current_start' = <<>>
             ELSE UNCHANGED <<current_start, segments>>
        /\ (~HasStart(LastLine) /\ ~HasEnd(LastLine)) =>
             UNCHANGED <<current_start, segments>> ]_vars

\* what the scan does satisfy: never more segments than silence_end lines,
\* and none without a silencedetect line
SegmentsAtMostEndLines ==
  /\ Len(segments) <= Cardinality(EndLines)
  /\ (\A i \in 1..Len(stderr) : ~stderr[i].silencedetect) => segments = <<>>

-----------------------------------------------------------------------------
\* two segments of the timeline meet: one ends where the other starts
Adjacent(a, b) == a.end = b.start

\* one of the two is at speed_factor A and the other at 1.0
SpeedJump(a, b, A) ==
  \/ a.speed_factor = A /\ b.speed_factor = DEFAULT_SPEED_FACTOR
  \/ a.speed_factor = DEFAULT_SPEED_FACTOR /\ b.speed_factor = A

(* C16: with accelerate = A # 1 and fluid = True no segment of the         *)
(* timeline at speed_factor A is adjacent to a segment at speed_factor     *)
(* 1.0.  (Violated: the short trailing gap of C11, played at A right after *)
(* the last speech interval.)                                              *)
C16_NoSpeedJump ==
  FluidDone =>
    \A a \in Range(timeline), b \in Range(timeline) :
      Adjacent(a, b) => ~SpeedJump(a, b, config.accelerate)

\* the jump of C16 appears with the short trailing gap of C11 only
NoSpeedJumpButShortTrailing ==
  (FluidDone /\ ~(TrailingGap > 1 /\ TrailingGap <= 10)) =>
    \A a \in Range(timeline), b \in Range(timeline) :
      Adjacent(a, b) => ~SpeedJump(a, b, config.accelerate)

-----------------------------------------------------------------------------
\* the hundredth [t, t+1) lies in a detected silent interval
SilentAt(t) ==
  \E i \in 1..Len(silent_segments) :
    silent_segments[i].start <= t /\ t < silent_segments[i].end

\* the hundredths of [0, total_duration] the detector did not flag
Unflagged == { t \in 0..(total_duration - 1) : ~SilentAt(t) }

\* the hundredths of the timeline played at speed_factor 1.0
PlayedNormally ==
  { t \in 0..(total_duration - 1) :
      \E seg \in Range(timeline) :
        seg.start <= t /\ t < seg.end /\ IsNormalSpeed(seg) }

\* what the result in hand preserves: the speech intervals, or after
\* build_timeline the part of the timeline at speed_factor 1.0
Preserved ==
  IF TimelineDone THEN PlayedNormally
  ELSE Cover(speech_segments, total_duration)

(* C17: every instant of [0, total_duration] outside all detected silent   *)
(* intervals lies in a segment of calculate_speech_segments, so cut mode   *)
(* keeps it and accelerate mode plays it at speed_factor 1.0.  (Violated:  *)
(* a trailing remainder of at most 0.05 s.)                                *)
C17_SpeechPreserved ==
  (SpeechDone \/ TimelineDone) => Unflagged \subseteq Preserved

\* the trailing chunk [max(0, cursor - padding), total_duration] is at most
\* FINAL_EPSILON long, so it is not emitted
TailDropped ==
  total_duration
    - Max(0, LastSilenceEnd(silent_segments) - config.padding) <= FINAL_EPSILON

\* the hundredths after the last silent interval, when the trailing chunk is
\* not emitted
DroppedTail ==
  IF TailDropped
  THEN { t \in 0..(total_duration - 1) : t >= LastSilenceEnd(silent_segments) }
  ELSE {}

(* C17 amended: every instant outside all detected silent intervals lies   *)
(* in a segment of calculate_speech_segments, and is played at             *)
(* speed_factor 1.0 in accelerate mode, except the instants after the last *)
(* silent interval when the trailing chunk is at most 0.05 s long.         *)
C17_SpeechPreservedButTail ==
  (SpeechDone \/ TimelineDone) =>
    Unflagged \subseteq (Preserved \cup DroppedTail)

\* speech before, between and after two silences, the remainder after the
\* second one being dropped, in accelerate mode
C17_Witness ==
  /\ TimelineDone
  /\ Accelerated
  /\ Len(silent_segments) = 2
  /\ silent_segments[1].start > 0
  /\ silent_segments[2].start > silent_segments[1].end
  /\ Unflagged \cap DroppedTail # {}
  /\ Unflagged \cap Preserved # {}

====
